---- MODULE Spec2Model ----
(***************************************************************************)
(* Model of the market-data layer of the Binance P2P ETB Telegram bot      *)
(* (src/main.py): the CoinGecko symbol cache (get_coin_list,               *)
(* get_coin_id_from_symbol), the Binance P2P fetch (get_p2p_data) with the *)
(* handlers that select offers from it, and the convert handlers.          *)
(*                                                                         *)
(* Scheduling.  Application.builder().token(..).build() (line 390) leaves  *)
(* concurrent_updates off, so the dispatcher runs one handler at a time.   *)
(* Within a handler the HTTP calls are blocking `requests` calls and       *)
(* `await get_coin_list()` runs the callee without giving control back to  *)
(* the event loop: the only suspension points are the final                *)
(* `await ...reply_text(..)` and `await ...answer(..)`, after every read   *)
(* and write of the cache.  A handler is therefore one atomic step on the  *)
(* program's state followed by a step Done that touches none of it, and    *)
(* the handlers' steps follow each other in any order.                     *)
(*                                                                         *)
(* Numbers.  Python floats are modelled as exact rationals [n, d].         *)
(* Strings that are case-folded are sequences of one-character strings.    *)
(***************************************************************************)
EXTENDS Integers, Sequences, FiniteSets, TLC

VARIABLES
    pc,               \* "boot": main() before line 393; "polling": run_polling; "crashed"
    coin_list_cache,  \* global coin_list_cache (line 29): lower-cased symbol -> id
    last_updated,     \* global last_updated (line 30)
    now,              \* asyncio loop.time(), in seconds
    fetched,          \* history: the listing of the last fetch that was assigned to the cache
    listing_log,      \* history: when the listing was last requested, and last fetched non-empty
    last              \* the operation in progress, its inputs and its outcome; Idle when none is

vars == <<pc, coin_list_cache, last_updated, now, fetched, listing_log, last>>

----------------------------------------------------------------------------
(* Bounds of the model *)

\* how many days the clock advances
MaxTicks == 2
\* the longest offer list the P2P endpoint returns in the model
MaxOffers == 11

----------------------------------------------------------------------------
(* Optional values: None is <<>>, a present value x is <<x>> *)

None == <<>>
Some(x) == <<x>>

(* Strings with case: str.lower() on ASCII letters *)

LowerChars == <<"b", "c", "d", "n", "o", "p", "r", "s", "t", "u", "x", "e">>
UpperChars == <<"B", "C", "D", "N", "O", "P", "R", "S", "T", "U", "X", "E">>

LowerChar(c) ==
    IF \E i \in DOMAIN UpperChars : UpperChars[i] = c
    THEN LowerChars[CHOOSE i \in DOMAIN UpperChars : UpperChars[i] = c]
    ELSE c

UpperChar(c) ==
    IF \E i \in DOMAIN LowerChars : LowerChars[i] = c
    THEN UpperChars[CHOOSE i \in DOMAIN LowerChars : LowerChars[i] = c]
    ELSE c

Lower(s) == [i \in DOMAIN s |-> LowerChar(s[i])]
Upper(s) == [i \in DOMAIN s |-> UpperChar(s[i])]

usdt == <<"u", "s", "d", "t">>
etb == <<"e", "t", "b">>
btc == <<"b", "t", "c">>
ton == <<"t", "o", "n">>
xrp == <<"x", "r", "p">>

\* every spelling of s in upper and lower case letters
RECURSIVE CaseVariants(_)
CaseVariants(s) ==
    IF s = <<>> THEN {<<>>}
    ELSE LET c == s[Len(s)]
         IN {Append(v, d) : v \in CaseVariants(SubSeq(s, 1, Len(s) - 1)),
                            d \in {LowerChar(c), UpperChar(c)}}

----------------------------------------------------------------------------
(* The CoinGecko listing endpoint, as the environment answers it *)

Coin(sym, id) == [symbol |-> sym, id |-> id]

Listings ==
    { <<>>,
      <<Coin(btc, "bitcoin"), Coin(usdt, "tether"), Coin(ton, "the-open-network")>>,
      <<Coin(Upper(btc), "bitcoin"), Coin(btc, "batcat"), Coin(usdt, "tether")>>,
      <<Coin(ton, "tontoken"), Coin(usdt, "tether")>> }

\* requests.get raises ConnectionError/Timeout; raise_for_status raises HTTPError;
\* response.json() raises JSONDecodeError: all three are caught at line 80
CaughtKinds == {"neterr", "http", "undecodable"}

\* a 2xx body that decodes but is no list of {symbol, id} objects: the comprehension
\* of line 76 raises KeyError/TypeError, which line 80 does not catch
ListingOutcomes ==
    {[kind |-> "ok", data |-> l] : l \in Listings}
    \cup {[kind |-> k, data |-> <<>>] : k \in CaughtKinds \cup {"badshape"}}

EmptyCache == [k \in {} |-> ""]

IsEmpty(cache) == DOMAIN cache = {}

\* line 76: {coin['symbol'].lower(): coin['id'] for coin in data}; entries are
\* inserted in order, a later entry overwrites an earlier one with the same key
RECURSIVE NewCache(_)
NewCache(data) ==
    IF data = <<>> THEN EmptyCache
    ELSE LET front == NewCache(SubSeq(data, 1, Len(data) - 1))
             coin == data[Len(data)]
             key == Lower(coin.symbol)
         IN [k \in DOMAIN front \cup {key} |-> IF k = key THEN coin.id ELSE front[k]]

\* a writer that updates the global map in place instead of replacing it
MergedCache(cache, data) ==
    LET new == NewCache(data)
    IN [k \in DOMAIN cache \cup DOMAIN new |-> IF k \in DOMAIN new THEN new[k] ELSE cache[k]]

\* lines 76-77: the value coin_list_cache holds after the assignment
RefreshedCache(cache, data) == NewCache(data)

StaleAfter == 86400

\* a refresh condition that already fires at an age of exactly 24 hours
ShouldRefreshAtAge(cache, lu, t) == IsEmpty(cache) \/ (t - lu >= StaleAfter)

\* line 71: the condition under which get_coin_list requests the listing
ShouldRefresh(cache, lu, t) == IsEmpty(cache) \/ (t - lu > StaleAfter)

\* a failed fetch that still stamps the refresh time
GetCoinListStampsOnFailure(cache, lu, t, out) ==
    IF ~ShouldRefresh(cache, lu, t)
    THEN [cache |-> cache, lu |-> lu, ret |-> Some(cache), raised |-> FALSE,
          requests |-> 0, assigned |-> FALSE]
    ELSE IF out.kind = "ok"
    THEN LET new == RefreshedCache(cache, out.data)
         IN [cache |-> new, lu |-> t, ret |-> Some(new), raised |-> FALSE,
             requests |-> 1, assigned |-> TRUE]
    ELSE [cache |-> cache, lu |-> t,
          ret |-> IF IsEmpty(cache) THEN None ELSE Some(cache),
          raised |-> out.kind \notin CaughtKinds, requests |-> 1, assigned |-> FALSE]

\* get_coin_list (lines 69-84) called with the globals cache, lu at loop time t,
\* when the listing request, if one is made, ends as `out`
GetCoinList(cache, lu, t, out) ==
    IF ~ShouldRefresh(cache, lu, t)
    THEN [cache |-> cache, lu |-> lu, ret |-> Some(cache), raised |-> FALSE,
          requests |-> 0, assigned |-> FALSE]
    ELSE IF out.kind = "ok"
    THEN LET new == RefreshedCache(cache, out.data)
         IN [cache |-> new, lu |-> t, ret |-> Some(new), raised |-> FALSE,
             requests |-> 1, assigned |-> TRUE]
    ELSE IF out.kind \in CaughtKinds
    THEN [cache |-> cache, lu |-> lu,
          ret |-> IF IsEmpty(cache) THEN None ELSE Some(cache),
          raised |-> FALSE, requests |-> 1, assigned |-> FALSE]
    ELSE [cache |-> cache, lu |-> lu, ret |-> None, raised |-> TRUE,
          requests |-> 1, assigned |-> FALSE]

\* a lookup that forgets to lower-case the symbol
LookupCaseSensitive(cache, symbol) ==
    IF symbol \in DOMAIN cache THEN Some(cache[symbol]) ELSE None

\* line 89: coin_list_cache.get(symbol.lower())
Lookup(cache, symbol) ==
    IF Lower(symbol) \in DOMAIN cache THEN Some(cache[Lower(symbol)]) ELSE None

\* get_coin_id_from_symbol (lines 86-89)
GetCoinIdFromSymbol(cache, lu, t, symbol, out) ==
    IF IsEmpty(cache)
    THEN LET r == GetCoinList(cache, lu, t, out)
         IN [cache |-> r.cache, lu |-> r.lu,
             ret |-> IF r.raised THEN None ELSE Lookup(r.cache, symbol),
             raised |-> r.raised, requests |-> r.requests, assigned |-> r.assigned]
    ELSE [cache |-> cache, lu |-> lu, ret |-> Lookup(cache, symbol), raised |-> FALSE,
          requests |-> 0, assigned |-> FALSE]

\* the outcomes a call draws from: none when it makes no listing request
NoRequest == [kind |-> "none", data |-> <<>>]

OutcomesIf(requesting) == IF requesting THEN ListingOutcomes ELSE {NoRequest}

\* the listing whose map the cache holds after a call that ended as `out`
FetchedAfter(r, out) == IF r.assigned THEN out.data ELSE fetched

\* the request times after a call at loop time t that ended as `out`
LogAfter(log, r, out, t) ==
    [at |-> IF r.requests > 0 THEN Some(t) ELSE log.at,
     good |-> IF r.assigned /\ out.data /= <<>> THEN Some(t) ELSE log.good]

\* no handler is running
Idle == [op |-> "none"]

\* the symbols users ask about
Queries == CaseVariants(btc) \cup {usdt, Upper(usdt), ton, xrp, Upper(xrp)}

----------------------------------------------------------------------------
(* The Binance P2P search endpoint and get_p2p_data *)

\* the provider's book: distinct prices in the provider's order, which is not sorted
Book == [i \in 1..(MaxOffers + 1) |-> [price |-> 100 + ((i * 7) % 13)]]

\* a 2xx JSON body: an object with "data" a list, with "data" null, or without "data"
P2PBodies ==
    {[hasData |-> TRUE, data |-> Some(SubSeq(Book, 1, k))] : k \in 0..MaxOffers}
    \cup {[hasData |-> TRUE, data |-> None], [hasData |-> FALSE, data |-> None]}

P2POutcomes ==
    {[kind |-> "ok", body |-> b] : b \in P2PBodies}
    \cup {[kind |-> k, body |-> [hasData |-> FALSE, data |-> None]] : k \in CaughtKinds}

\* a fetch that does not call raise_for_status and hands the error body to its caller
GetP2PDataUnchecked(amount, trade_type, out) ==
    IF out.kind \in {"neterr", "undecodable"}
    THEN [ret |-> None, raised |-> FALSE]
    ELSE [ret |-> Some(out.body), raised |-> FALSE]

\* get_p2p_data (lines 44-67): the body on success, None on every caught failure
GetP2PData(amount, trade_type, out) ==
    IF out.kind \in CaughtKinds
    THEN [ret |-> None, raised |-> FALSE]
    ELSE [ret |-> Some(out.body), raised |-> FALSE]

\* `data and "data" in data`: the fetch returned an object that has the key "data"
HasDataKey(d) == d /= None /\ d[1].hasData

\* `data["data"]` is a list (not null)
IsList(d) == d[1].data /= None

Offers(d) == d[1].data[1]

Min(a, b) == IF a <= b THEN a ELSE b

TopCount == 10

\* a display that shows one offer too few
FirstNine(offers) == SubSeq(offers, 1, Min(TopCount - 1, Len(offers)))

\* data['data'][:10] (lines 114, 143, 294, 309)
TopTen(offers) == SubSeq(offers, 1, Min(TopCount, Len(offers)))

\* the length the sell handlers require (lines 173, 325)
SellMinOffers == 6

\* picking the offer one rank too early
FifthOffer(offers) == offers[SellMinOffers - 1]

\* data["data"][5] (lines 177, 326): Python's index 5 is the sixth element
SixthOffer(offers) == offers[SellMinOffers]

P2PRecord(op, amount, trade_type, out, f, outcome, shown, used, total) ==
    [op |-> op, amount |-> amount, trade_type |-> trade_type, fetch |-> out.kind,
     body |-> out.body, data |-> f.ret, fetchRaised |-> f.raised,
     outcome |-> outcome, shown |-> shown, used |-> used, total |-> total]

\* p2p_command (lines 107-127) and rate_command (lines 129-159) after the fetch
ShowCommand(op, amount, out) ==
    LET f == GetP2PData(amount, "BUY", out)
        d == f.ret
    IN IF ~HasDataKey(d) \/ ~IsList(d) \/ Offers(d) = <<>>
       THEN P2PRecord(op, amount, "BUY", out, f, "failure", <<>>, None, None)
       ELSE P2PRecord(op, amount, "BUY", out, f, "success", TopTen(Offers(d)), None, None)

\* inline_query, branches "p2p" (lines 290-300) and "rate" (lines 303-316)
ShowInline(op, amount, out) ==
    LET f == GetP2PData(amount, "BUY", out)
        d == f.ret
    IN IF ~HasDataKey(d)
       THEN P2PRecord(op, amount, "BUY", out, f, "noanswer", <<>>, None, None)
       ELSE IF ~IsList(d)
       THEN P2PRecord(op, amount, "BUY", out, f, "raised", <<>>, None, None)
       ELSE P2PRecord(op, amount, "BUY", out, f, "success", TopTen(Offers(d)), None, None)

\* sell_command (lines 161-193) with three arguments
SellCommandResult(amount, from, to, out) ==
    IF Lower(from) /= usdt \/ Lower(to) /= etb
    THEN [op |-> "sell", amount |-> amount, fetch |-> "none", outcome |-> "unsupported"]
    ELSE LET f == GetP2PData(amount, "SELL", out)
             d == f.ret
         IN IF ~HasDataKey(d)
            THEN P2PRecord("sell", amount, "SELL", out, f, "insufficient", <<>>, None, None)
            ELSE IF ~IsList(d)
            THEN P2PRecord("sell", amount, "SELL", out, f, "error", <<>>, None, None)
            ELSE IF Len(Offers(d)) < SellMinOffers
            THEN P2PRecord("sell", amount, "SELL", out, f, "insufficient", <<>>, None, None)
            ELSE LET best == SixthOffer(Offers(d))
                 IN P2PRecord("sell", amount, "SELL", out, f, "success", <<>>,
                              Some(best), Some(amount * best.price))

\* inline_query, branch "sell" (lines 319-332)
SellInlineResult(amount, from, to, out) ==
    IF Lower(from) /= usdt \/ Lower(to) /= etb
    THEN [op |-> "inline_sell", amount |-> amount, fetch |-> "none", outcome |-> "noanswer"]
    ELSE LET f == GetP2PData(amount, "SELL", out)
             d == f.ret
         IN IF ~HasDataKey(d)
            THEN P2PRecord("inline_sell", amount, "SELL", out, f, "noanswer", <<>>, None, None)
            ELSE IF ~IsList(d)
            THEN P2PRecord("inline_sell", amount, "SELL", out, f, "raised", <<>>, None, None)
            ELSE IF Len(Offers(d)) < SellMinOffers
            THEN P2PRecord("inline_sell", amount, "SELL", out, f, "noanswer", <<>>, None, None)
            ELSE LET best == SixthOffer(Offers(d))
                 IN P2PRecord("inline_sell", amount, "SELL", out, f, "success", <<>>,
                              Some(best), Some(amount * best.price))

\* the amounts users give; the /p2p handlers pass None
Amounts == {1, 100}

SellPairs == {<<usdt, etb>>, <<Upper(usdt), Upper(etb)>>, <<btc, etb>>}

----------------------------------------------------------------------------
(* Exact rationals for Python's floats *)

RECURSIVE GCD(_, _)
GCD(a, b) == IF b = 0 THEN a ELSE GCD(b, a % b)

Abs(x) == IF x < 0 THEN -x ELSE x

\* n/d in lowest terms with a positive denominator (d /= 0)
Rat(n, d) ==
    LET g == GCD(Abs(n), Abs(d))
        sign == IF d < 0 THEN -1 ELSE 1
    IN [n |-> sign * (n \div g), d |-> sign * (d \div g)]

RMul(a, b) == Rat(a.n * b.n, a.d * b.d)

\* a / b for b /= 0; Python raises ZeroDivisionError for b = 0
RDiv(a, b) == Rat(a.n * b.d, a.d * b.n)

IsZero(a) == a.n = 0

----------------------------------------------------------------------------
(* The CoinGecko simple/price endpoint and the convert handlers *)

\* the quote values the endpoint gives: 0, 1/2, 1 and 2 US dollars
QuoteValues == {Rat(0, 1), Rat(1, 2), Rat(1, 1), Rat(2, 1)}

\* a quote in the response, or None when the identifier or its "usd" field is missing
OptQuotes == {None} \cup {Some(q) : q \in QuoteValues}

\* the answers to GET simple/price?ids=from_id,to_id&vs_currencies=usd:
\* "http" is a non-2xx answer whose body is a JSON error object without quotes,
\* "http_undecodable" a non-2xx answer whose body is not JSON
PriceOutcomes(from_id, to_id) ==
    {[kind |-> "ok", prices |-> pr] : pr \in [{from_id, to_id} -> OptQuotes]}
    \cup {[kind |-> k, prices |-> [i \in {from_id, to_id} |-> None]] :
            k \in {"neterr", "http", "http_undecodable", "undecodable"}}

NoPriceRequest == [kind |-> "none"]

\* converting at the destination's quote alone
DirectQuoteAmount(amount, from_rate, to_rate) == RDiv(amount, to_rate)

\* lines 218 and 349: (amount * from_rate_usd) / to_rate_usd
ConvertAmount(amount, from_rate, to_rate) == RDiv(RMul(amount, from_rate), to_rate)

\* both unit rates computed as from/to
UnitRatesSame(from_rate, to_rate) ==
    [from_to |-> RDiv(from_rate, to_rate), to_from |-> RDiv(from_rate, to_rate)]

\* lines 219-220: rate_from_to and rate_to_from
UnitRates(from_rate, to_rate) ==
    [from_to |-> RDiv(from_rate, to_rate), to_from |-> RDiv(to_rate, from_rate)]

\* `not from_id or not to_id` (line 205) and its negation (line 341)
BothFound(from_id, to_id) == from_id /= None /\ to_id /= None

ConvertRecord(op, amount, from, to, from_id, to_id, requests, price, outcome, result, rates) ==
    [op |-> op, amount |-> amount, from |-> from, to |-> to, from_id |-> from_id,
     to_id |-> to_id, requests |-> requests, fetch |-> price.kind,
     from_rate |-> IF price.kind = "ok" THEN price.prices[from_id[1]] ELSE None,
     to_rate |-> IF price.kind = "ok" THEN price.prices[to_id[1]] ELSE None,
     outcome |-> outcome, result |-> result, rates |-> rates]

\* convert_command, lines 208-229: the quote request and the arithmetic; every
\* exception ends in the handler's `except Exception` (line 227)
ConvertCommandQuote(amount, from, to, from_id, to_id, requests, price) ==
    LET rec(outcome, result, rates) ==
            ConvertRecord("convert", amount, from, to, from_id, to_id, requests, price,
                          outcome, result, rates)
    IN IF price.kind /= "ok"
       THEN rec("error", None, None)
       ELSE LET fr == price.prices[from_id[1]]
                tr == price.prices[to_id[1]]
            IN IF fr = None \/ tr = None
               THEN rec("unavailable", None, None)
               ELSE IF IsZero(tr[1]) \/ IsZero(fr[1])
               THEN rec("error", None, None)
               ELSE rec("success", Some(ConvertAmount(amount, fr[1], tr[1])),
                        Some(UnitRates(fr[1], tr[1])))

\* inline_query, lines 342-354: no raise_for_status and no try
ConvertInlineQuote(amount, from, to, from_id, to_id, requests, price) ==
    LET rec(outcome, result) ==
            ConvertRecord("inline_convert", amount, from, to, from_id, to_id, requests,
                          price, outcome, result, None)
    IN IF price.kind \in {"neterr", "http_undecodable", "undecodable"}
       THEN rec("raised", None)
       ELSE LET fr == price.prices[from_id[1]]
                tr == price.prices[to_id[1]]
            IN IF fr = None \/ tr = None \/ IsZero(fr[1]) \/ IsZero(tr[1])
               THEN rec("noanswer", None)
               ELSE rec("success", Some(ConvertAmount(amount, fr[1], tr[1])))

\* what the handlers do when a lookup raised or found nothing (lines 205-207, 227-229, 341)
ConvertUnresolved(op, amount, from, to, r1, r2) ==
    ConvertRecord(op, amount, from, to, r1.ret, r2.ret, r1.requests + r2.requests,
                  NoPriceRequest,
                  IF r1.raised \/ r2.raised
                  THEN (IF op = "convert" THEN "error" ELSE "raised")
                  ELSE (IF op = "convert" THEN "notfound" ELSE "noanswer"),
                  None, None)

\* the second lookup does not run when the first one raised
SecondLookup(r1, to, out2) ==
    IF r1.raised
    THEN [cache |-> r1.cache, lu |-> r1.lu, ret |-> None, raised |-> FALSE,
          requests |-> 0, assigned |-> FALSE]
    ELSE GetCoinIdFromSymbol(r1.cache, r1.lu, now, to, out2)

\* the amounts of a conversion, as floats
ConvertAmounts == {Rat(1, 1), Rat(100, 1)}

\* the symbols users convert between
ConvertSymbols == {usdt, Upper(btc), ton, xrp}

----------------------------------------------------------------------------
(* Initial state: the module has been imported (lines 29-30) and main() starts *)

Init ==
    /\ pc = "boot"
    /\ coin_list_cache = EmptyCache
    /\ last_updated = 0
    /\ now = 0
    /\ fetched = <<>>
    /\ listing_log = [at |-> None, good |-> None]
    /\ last = Idle

ResolverRecord(op, symbol, r, out) ==
    [op |-> op, symbol |-> symbol, fetch |-> out.kind, requests |-> r.requests,
     raised |-> r.raised, ret |-> r.ret,
     populated |-> ~IsEmpty(coin_list_cache),
     stale |-> ~IsEmpty(coin_list_cache) /\ (now - last_updated > StaleAfter)]

\* main(), line 393: run_until_complete(get_coin_list()); an exception ends the process
Startup ==
    /\ pc = "boot"
    /\ last = Idle
    /\ \E out \in OutcomesIf(ShouldRefresh(coin_list_cache, last_updated, now)) :
         \E r \in {GetCoinList(coin_list_cache, last_updated, now, out)} :
            /\ coin_list_cache' = r.cache
            /\ last_updated' = r.lu
            /\ fetched' = FetchedAfter(r, out)
            /\ listing_log' = LogAfter(listing_log, r, out, now)
            /\ pc' = IF r.raised THEN "crashed" ELSE "polling"
            /\ last' = ResolverRecord("refresh", <<>>, r, out)
    /\ UNCHANGED now

\* a call of get_coin_list() from any other caller while the bot runs
Refresh ==
    /\ pc = "polling"
    /\ last = Idle
    /\ \E out \in OutcomesIf(ShouldRefresh(coin_list_cache, last_updated, now)) :
         \E r \in {GetCoinList(coin_list_cache, last_updated, now, out)} :
            /\ coin_list_cache' = r.cache
            /\ last_updated' = r.lu
            /\ fetched' = FetchedAfter(r, out)
            /\ listing_log' = LogAfter(listing_log, r, out, now)
            /\ last' = ResolverRecord("refresh", <<>>, r, out)
    /\ UNCHANGED <<pc, now>>

\* coin_command line 234 and inline_query line 359: get_coin_id_from_symbol(symbol)
Resolve ==
    /\ pc = "polling"
    /\ last = Idle
    /\ \E symbol \in Queries, out \in OutcomesIf(IsEmpty(coin_list_cache)) :
         \E r \in {GetCoinIdFromSymbol(coin_list_cache, last_updated, now, symbol, out)} :
            /\ coin_list_cache' = r.cache
            /\ last_updated' = r.lu
            /\ fetched' = FetchedAfter(r, out)
            /\ listing_log' = LogAfter(listing_log, r, out, now)
            /\ last' = ResolverRecord("resolve", symbol, r, out)
    /\ UNCHANGED <<pc, now>>

\* time passes between two steps of the event loop
Tick ==
    /\ pc = "polling"
    /\ last = Idle
    /\ \E d \in {StaleAfter, StaleAfter + 1} :
         /\ now + d <= MaxTicks * (StaleAfter + 1)
         /\ now' = now + d
    /\ UNCHANGED <<pc, coin_list_cache, last_updated, fetched, listing_log, last>>

----------------------------------------------------------------------------
(* The P2P handlers: none of them reads or writes the symbol cache *)

P2pCommand ==
    /\ pc = "polling"
    /\ last = Idle
    /\ \E out \in P2POutcomes : last' = ShowCommand("p2p", None, out)
    /\ UNCHANGED <<pc, coin_list_cache, last_updated, now, fetched, listing_log>>

RateCommand ==
    /\ pc = "polling"
    /\ last = Idle
    /\ \E amount \in Amounts, out \in P2POutcomes :
         last' = ShowCommand("rate", Some(amount), out)
    /\ UNCHANGED <<pc, coin_list_cache, last_updated, now, fetched, listing_log>>

InlineP2p ==
    /\ pc = "polling"
    /\ last = Idle
    /\ \E out \in P2POutcomes : last' = ShowInline("inline_p2p", None, out)
    /\ UNCHANGED <<pc, coin_list_cache, last_updated, now, fetched, listing_log>>

InlineRate ==
    /\ pc = "polling"
    /\ last = Idle
    /\ \E amount \in Amounts, out \in P2POutcomes :
         last' = ShowInline("inline_rate", Some(amount), out)
    /\ UNCHANGED <<pc, coin_list_cache, last_updated, now, fetched, listing_log>>

SellCommand ==
    /\ pc = "polling"
    /\ last = Idle
    /\ \E amount \in Amounts, pair \in SellPairs, out \in P2POutcomes :
         last' = SellCommandResult(amount, pair[1], pair[2], out)
    /\ UNCHANGED <<pc, coin_list_cache, last_updated, now, fetched, listing_log>>

InlineSell ==
    /\ pc = "polling"
    /\ last = Idle
    /\ \E amount \in Amounts, pair \in SellPairs, out \in P2POutcomes :
         last' = SellInlineResult(amount, pair[1], pair[2], out)
    /\ UNCHANGED <<pc, coin_list_cache, last_updated, now, fetched, listing_log>>

P2PNext == P2pCommand \/ RateCommand \/ InlineP2p \/ InlineRate \/ SellCommand \/ InlineSell

----------------------------------------------------------------------------
(* The convert handlers: two lookups (lines 203-204, 339-340), then the quote *)

ConvertStep(op) ==
    /\ \E amount \in ConvertAmounts, a \in ConvertSymbols, b \in ConvertSymbols,
          out1 \in OutcomesIf(IsEmpty(coin_list_cache)) :
         \E from \in {Lower(a)}, to \in {Lower(b)} :
         \E r1 \in {GetCoinIdFromSymbol(coin_list_cache, last_updated, now, from, out1)} :
         \E out2 \in OutcomesIf(~r1.raised /\ IsEmpty(r1.cache)) :
         \E r2 \in {SecondLookup(r1, to, out2)} :
            /\ coin_list_cache' = r2.cache
            /\ last_updated' = r2.lu
            /\ fetched' = IF r2.assigned THEN out2.data
                          ELSE IF r1.assigned THEN out1.data ELSE fetched
            /\ listing_log' = LogAfter(LogAfter(listing_log, r1, out1, now), r2, out2, now)
            /\ IF r1.raised \/ r2.raised \/ ~BothFound(r1.ret, r2.ret)
               THEN last' = ConvertUnresolved(op, amount, from, to, r1, r2)
               ELSE \E price \in PriceOutcomes(r1.ret[1], r2.ret[1]) :
                      last' = IF op = "convert"
                              THEN ConvertCommandQuote(amount, from, to, r1.ret, r2.ret,
                                                       r1.requests + r2.requests, price)
                              ELSE ConvertInlineQuote(amount, from, to, r1.ret, r2.ret,
                                                      r1.requests + r2.requests, price)
    /\ UNCHANGED <<pc, now>>

\* convert_command (lines 195-229) with three arguments
ConvertCommand ==
    /\ pc = "polling"
    /\ last = Idle
    /\ ConvertStep("convert")

\* inline_query, branch "convert" (lines 335-354)
InlineConvert ==
    /\ pc = "polling"
    /\ last = Idle
    /\ ConvertStep("inline_convert")

ConvertNext == ConvertCommand \/ InlineConvert

\* the operation ends: the reply is sent (`await ...reply_text`, `await ...answer`)
\* or its exception reaches the dispatcher, and the next update is taken
Done ==
    /\ last /= Idle
    /\ last' = Idle
    /\ UNCHANGED <<pc, coin_list_cache, last_updated, now, fetched, listing_log>>

\* the whole program: startup, then one handler at a time as time passes
Next == Startup \/ Resolve \/ Tick \/ P2PNext \/ ConvertNext \/ Done

Spec == Init /\ [][Next]_vars

\* the program together with direct calls of its refresh operation
SpecApi == Init /\ [][Next \/ Refresh]_vars

----------------------------------------------------------------------------
(* Properties *)

ResolverOps == {"refresh", "resolve"}
ShowCommands == {"p2p", "rate"}
ShowInlines == {"inline_p2p", "inline_rate"}
SellOps == {"sell", "inline_sell"}
ConvertOps == {"convert", "inline_convert"}

\* the last entry of `listing` whose lower-cased symbol is k
LastEntry(listing, k) ==
    listing[CHOOSE i \in DOMAIN listing :
              /\ Lower(listing[i].symbol) = k
              /\ \A j \in DOMAIN listing : j > i => Lower(listing[j].symbol) /= k]

ListedKeys(listing) == {Lower(listing[i].symbol) : i \in DOMAIN listing}

\* C1: in every reachable state the cache map is exactly the map of one successful
\* listing fetch, the last one assigned (the empty map before any): its keys are
\* that listing's lower-cased symbols, each with the identifier of that listing;
\* it never holds part of a listing or entries of two listings.
C1_CacheIsOneWholeListing ==
    /\ DOMAIN coin_list_cache = ListedKeys(fetched)
    /\ \A k \in DOMAIN coin_list_cache : coin_list_cache[k] = LastEntry(fetched, k).id

\* C1 witness: a refresh has replaced a populated, stale map by the map of a
\* listing that lacks one of the old map's symbols.
C1_Witness ==
    /\ last.op = "refresh"
    /\ last.populated
    /\ last.fetch = "ok"
    /\ DOMAIN coin_list_cache = {usdt, ton}

\* C2: a resolve call made while the cache is stale (populated, and refreshed more
\* than 24 hours ago) requests the listing exactly once.
C2_StaleResolveRefreshes ==
    (last.op = "resolve" /\ last.stale) => last.requests = 1

\* C3: a step in which a refresh or a resolve makes a listing request that fails
\* (transport error, non-2xx, undecodable body) changes neither the cache nor
\* last_updated and raises nothing; the resolve caller gets the answer the map held
\* before the call gives (None when that map was empty), and the refresh caller
\* gets None only when that map was empty.
C3_FailedRefreshKeepsState ==
    [][(last'.op \in ResolverOps /\ last'.fetch \in CaughtKinds) =>
         /\ coin_list_cache' = coin_list_cache
         /\ last_updated' = last_updated
         /\ ~last'.raised
         /\ last'.op = "resolve" =>
              /\ last'.ret = Lookup(coin_list_cache, last'.symbol)
              /\ IsEmpty(coin_list_cache) => last'.ret = None
         /\ last'.op = "refresh" =>
              last'.ret = IF IsEmpty(coin_list_cache) THEN None ELSE Some(coin_list_cache)
      ]_vars

\* C3 witness: a refresh of a populated cache has failed.
C3_Witness ==
    /\ last.op = "refresh"
    /\ last.fetch \in CaughtKinds
    /\ last.populated
    /\ ~IsEmpty(coin_list_cache)

P2POps == ShowCommands \cup ShowInlines \cup SellOps

\* C4: a step in which get_p2p_data meets a network error, a non-2xx response or an
\* undecodable body returns None to the handler without raising, for either trade
\* direction and any amount, and changes neither the cache nor last_updated.
C4_P2PFailureIsNone ==
    [][(last'.op \in P2POps /\ last'.fetch \in CaughtKinds) =>
         /\ last'.data = None
         /\ ~last'.fetchRaised
         /\ last'.outcome /= "raised"
         /\ coin_list_cache' = coin_list_cache
         /\ last_updated' = last_updated
      ]_vars

\* C4 witness: a SELL fetch with an amount got HTTP 500 while the cache was populated.
C4_Witness ==
    /\ last.op = "inline_sell"
    /\ last.fetch = "http"
    /\ last.trade_type = "SELL"
    /\ ~IsEmpty(coin_list_cache)

\* C5: in both convert entry points no failure of the price request leaves the
\* operation as a raised exception.
C5_ConvertNeverRaises ==
    (last.op \in ConvertOps /\ last.fetch \in {"neterr", "http", "http_undecodable", "undecodable"})
        => last.outcome /= "raised"

\* r = a * f / t, by cross-multiplication
IsScaled(r, a, f, t) == r.n * (a.d * f.d * t.n) = r.d * (a.n * f.n * t.d)

Present(q) == q /= None /\ q[1].n /= 0

\* C6 as claimed: a successful conversion from "usdt" returns amount / quoteRate of
\* the destination, whatever else was fetched.
C6_DirectQuote ==
    (last.op \in ConvertOps /\ last.from = usdt /\ last.outcome = "success") =>
        IsScaled(last.result[1], last.amount, Rat(1, 1), last.to_rate[1])

\* C6 amended: a conversion from "usdt" whose two symbols resolve and whose two
\* fetched quotes are present and not zero succeeds with amount * usdtQuote / toQuote,
\* which is amount / toQuote exactly when the fetched usdt quote is 1.
C6_UsdtTriangulated ==
    (/\ last.op \in ConvertOps
     /\ last.from = usdt
     /\ last.fetch = "ok"
     /\ Present(last.from_rate)
     /\ Present(last.to_rate)) =>
        /\ last.outcome = "success"
        /\ IsScaled(last.result[1], last.amount, last.from_rate[1], last.to_rate[1])
        /\ IsScaled(last.result[1], last.amount, Rat(1, 1), last.to_rate[1])
             <=> (last.amount.n = 0 \/ last.from_rate[1] = Rat(1, 1))

\* C6 witness: 100 usdt at a usdt quote of 1 and a ton quote of 0.5 gave 200.
C6_Witness ==
    /\ last.op = "convert"
    /\ last.from = usdt
    /\ last.to = ton
    /\ last.amount = Rat(100, 1)
    /\ last.from_rate = Some(Rat(1, 1))
    /\ last.to_rate = Some(Rat(1, 2))
    /\ last.result = Some(Rat(200, 1))

NeitherUsdt == last.from /= usdt /\ last.to /= usdt

\* C7 as claimed: with neither symbol "usdt", both resolved and the price request
\* answered, the conversion succeeds with amount * fromRate / toRate and two unit
\* rates whose product is 1 when both quotes are present, and ends as "rate
\* unavailable" exactly when one is missing.
C7_Triangulated ==
    (last.op \in ConvertOps /\ NeitherUsdt /\ last.fetch = "ok") =>
        IF last.from_rate /= None /\ last.to_rate /= None
        THEN /\ last.outcome = "success"
             /\ IsScaled(last.result[1], last.amount, last.from_rate[1], last.to_rate[1])
             /\ last.rates /= None
             /\ last.rates[1].from_to.n * last.rates[1].to_from.n
                  = last.rates[1].from_to.d * last.rates[1].to_from.d
        ELSE last.outcome = "unavailable"

\* C7 amended: with neither symbol "usdt", both resolved and the price request
\* answered: when both quotes are present and not zero both entry points succeed
\* with amount * fromRate / toRate, and /convert also gives the unit rates
\* fromRate/toRate and toRate/fromRate, whose product is 1 (the inline branch gives
\* none); /convert ends as "rate unavailable" exactly when a quote is missing and in
\* its error outcome when a present quote is 0; the inline branch gives no answer
\* when a quote is missing or 0.
C7_TriangulatedNonZero ==
    (last.op \in ConvertOps /\ NeitherUsdt /\ last.fetch = "ok") =>
        IF Present(last.from_rate) /\ Present(last.to_rate)
        THEN /\ last.outcome = "success"
             /\ IsScaled(last.result[1], last.amount, last.from_rate[1], last.to_rate[1])
             /\ last.op = "inline_convert" => last.rates = None
             /\ last.op = "convert" =>
                  /\ last.rates /= None
                  /\ IsScaled(last.rates[1].from_to, Rat(1, 1), last.from_rate[1], last.to_rate[1])
                  /\ IsScaled(last.rates[1].to_from, Rat(1, 1), last.to_rate[1], last.from_rate[1])
                  /\ last.rates[1].from_to.n * last.rates[1].to_from.n
                       = last.rates[1].from_to.d * last.rates[1].to_from.d
        ELSE /\ last.op = "inline_convert" => last.outcome = "noanswer"
             /\ last.op = "convert" =>
                  /\ last.outcome \in {"unavailable", "error"}
                  /\ last.outcome = "unavailable"
                       <=> (last.from_rate = None \/ last.to_rate = None)

\* C7 witness: /convert of 1 btc to ton at different quotes succeeded.
C7_Witness ==
    /\ last.op = "convert"
    /\ last.from = btc
    /\ last.to = ton
    /\ last.amount = Rat(1, 1)
    /\ last.outcome = "success"
    /\ last.from_rate /= last.to_rate

\* the offer list of a fetch that succeeded with "data" a list
GotOffers == last.fetch = "ok" /\ last.body.hasData /\ last.body.data /= None

IsFirstTen(shown, offers) ==
    /\ Len(shown) = (IF Len(offers) < 10 THEN Len(offers) ELSE 10)
    /\ \A i \in DOMAIN shown : shown[i] = offers[i]

\* C9 as claimed: for every fetched offer list, the empty one included, /p2p, /rate
\* and their inline branches succeed and show exactly the first min(10, length)
\* offers in provider order.
C9_TopTenAlwaysSucceeds ==
    (last.op \in ShowCommands \cup ShowInlines /\ GotOffers) =>
        /\ last.outcome = "success"
        /\ IsFirstTen(last.shown, last.body.data[1])

\* C9 amended: for every fetched non-empty offer list the four display operations
\* succeed and show exactly the first min(10, length) offers in provider order; for
\* the empty list the inline branches succeed with nothing shown, while /p2p and
\* /rate answer with their failure message.
C9_TopTenOfNonEmpty ==
    (last.op \in ShowCommands \cup ShowInlines /\ GotOffers) =>
        LET offers == last.body.data[1]
        IN IF offers /= <<>> \/ last.op \in ShowInlines
           THEN /\ last.outcome = "success"
                /\ IsFirstTen(last.shown, offers)
           ELSE /\ last.outcome = "failure"
                /\ last.shown = <<>>

\* C9 witness: /rate got more than 10 offers and showed 10.
C9_Witness ==
    /\ last.op = "rate"
    /\ GotOffers
    /\ Len(last.body.data[1]) > 10
    /\ Len(last.shown) = 10

\* C10 as claimed: once a non-empty listing is cached, resolve returns, for every
\* (symbol, id) entry of it and every spelling of the symbol, that entry's id, and
\* None without raising for a symbol the listing lacks.
C10_ResolveEveryEntry ==
    (last.op = "resolve" /\ fetched /= <<>>) =>
        /\ ~last.raised
        /\ \A i \in DOMAIN fetched :
             Lower(fetched[i].symbol) = Lower(last.symbol) => last.ret = Some(fetched[i].id)
        /\ Lower(last.symbol) \notin ListedKeys(fetched) => last.ret = None

\* C10 amended: once a non-empty listing is cached, resolve returns, for every
\* symbol of it in every spelling, the id of the last entry of the listing with that
\* lower-cased symbol, and None without raising for a symbol the listing lacks.
C10_ResolveLastEntry ==
    (last.op = "resolve" /\ fetched /= <<>>) =>
        /\ ~last.raised
        /\ last.ret = IF Lower(last.symbol) \in ListedKeys(fetched)
                      THEN Some(LastEntry(fetched, Lower(last.symbol)).id)
                      ELSE None

\* C10 witness: a mixed-case spelling resolved against a listing that has the
\* symbol twice, in two spellings.
C10_Witness ==
    /\ last.op = "resolve"
    /\ last.symbol = <<"B", "t", "C">>
    /\ Len(fetched) = 3
    /\ fetched[1].symbol = Upper(btc)
    /\ last.ret = Some("batcat")

\* a step in which a handler or a refresh call requests the listing
Requests(ops) == last = Idle /\ last'.op \in ops /\ last'.requests > 0

\* C11 as claimed: a resolve (alone or inside a conversion) requests the listing at
\* most once, and only when the previous listing request is more than 24 hours old.
C11_RequestsADayApart ==
    [][Requests({"resolve"} \cup ConvertOps) =>
         /\ last'.requests <= 1
         /\ listing_log.at = None \/ now - listing_log.at[1] > StaleAfter
      ]_vars

\* C11 amended: a listing request is issued only when no non-empty listing has been
\* fetched yet or the last successful fetch of a non-empty listing is more than 24
\* hours old.
C11_RequestsADayAfterSuccess ==
    [][Requests(ResolverOps \cup ConvertOps) =>
         listing_log.good = None \/ now - listing_log.good[1] > StaleAfter
      ]_vars

\* C11 witness: a refresh call has requested the listing again, more than 24 hours
\* after the fetch that populated the cache, and the request failed.
C11_Witness ==
    /\ last.op = "refresh"
    /\ last.stale
    /\ last.requests = 1
    /\ last.fetch \in CaughtKinds
    /\ listing_log.good /= None
    /\ now - listing_log.good[1] > StaleAfter
    /\ listing_log.at = Some(now)

====
